---------------------------- MODULE Spec2Model ----------------------------
(***************************************************************************)
(* A model of vedic-calendar.js: the solar calculation (getSunTimes,       *)
(* getSunTimesAsDate, minutesToDate), the derivation of the four Vedic     *)
(* windows (calculateVedicTimes), the calendar writer                      *)
(* (createCalendarEvents, getOrCreateCalendar) and the trigger set-up      *)
(* (setupTrigger).                                                         *)
(*                                                                         *)
(* Numbers.  A JavaScript Number is modelled in fixed point: the integer n *)
(* stands for n / Scale.  Angles are therefore in milliradians or          *)
(* millidegrees and the minutes-from-midnight values of getSunTimes in     *)
(* milliminutes.  NaN is a value of its own that every arithmetic step     *)
(* hands on.                                                               *)
(*                                                                         *)
(* Dates.  A Date is modelled at one-minute resolution on the script's     *)
(* local wall clock: the integer d stands for the local time d minutes     *)
(* after 00:00 of 31 December of the year before year 0 (so day d \div     *)
(* 1440 is the ordinal day of year 0, 1 January being day 1).  The         *)
(* daylight-saving shift of the zone enters where the code reads elapsed   *)
(* time (Date - Date) and where it formats the zone offset.  An invalid    *)
(* Date (time value NaN) is the value NaN.                                 *)
(***************************************************************************)
EXTENDS Integers, Sequences, FiniteSets, TLC

\* Fixed-point resolution of the modelled Numbers: n stands for n / Scale.
Scale == 1000

\* NaN, the result of Math.acos outside [-1, 1] and of arithmetic on NaN.
NaN == -2000000000

\* Math.PI, in units of 1 / Scale.
Pi == 3142

IsNaN(x) == x = NaN

\* a * b and a / b on fixed-point Numbers.  A product or quotient of
\* non-zero doubles of these magnitudes is never zero: the fixed-point result
\* is kept at least one unit away from zero.
FSign(a) == IF a < 0 THEN -1 ELSE IF a > 0 THEN 1 ELSE 0

FAbs(a) == IF a < 0 THEN -a ELSE a

FMul(a, b) ==
    LET m == (FAbs(a) * FAbs(b)) \div Scale
        s == FSign(a) * FSign(b)
    IN  IF s = 0 THEN 0 ELSE IF m = 0 THEN s ELSE s * m

FDiv(a, b) ==
    LET q == (FAbs(a) * Scale) \div FAbs(b)
        s == FSign(a) * FSign(b)
    IN  IF s = 0 THEN 0 ELSE IF q = 0 THEN s ELSE s * q

\* x + y and x - y, NaN handed on.
NumAdd(x, y) == IF IsNaN(x) \/ IsNaN(y) THEN NaN ELSE x + y

NumSub(x, y) == IF IsNaN(x) \/ IsNaN(y) THEN NaN ELSE x - y

\* Math.sin(x), x in milliradians: range reduction to [-Pi/2, Pi/2], then
\* the Taylor polynomial of degree 7 in Horner form.
MathSin(x) ==
    LET r  == ((x + Pi) % (2 * Pi)) - Pi
        y  == IF r > Pi \div 2 THEN Pi - r
              ELSE IF r < -(Pi \div 2) THEN -Pi - r ELSE r
        y2 == (y * y) \div Scale
        a  == Scale - (y2 \div 42)
        b  == Scale - ((y2 * a) \div (20 * Scale))
        c  == Scale - ((y2 * b) \div (6 * Scale))
        s  == (FAbs(y) * c) \div Scale
    IN  IF y < 0 THEN -s ELSE s

\* Math.cos(x).  No double has cosine exactly 0 (the double nearest to Pi/2
\* lies below it: Math.cos(90 * rad) is 6.1e-17), so a fixed-point 0 is the
\* smallest positive value.
MathCos(x) ==
    LET c == MathSin(x + (Pi \div 2))
    IN  IF c = 0 THEN 1 ELSE c

\* Math.tan(x).
MathTan(x) == FDiv(MathSin(x), MathCos(x))

\* Math.acos(c): NaN outside [-1, 1], 0 at 1, Pi at -1, and in between the
\* angle in [0, Pi] found by bisection on the (decreasing) cosine.
RECURSIVE AcosBisect(_, _, _)
AcosBisect(c, lo, hi) ==
    IF hi - lo <= 1
    THEN IF MathCos(lo) - c <= c - MathCos(hi) THEN lo ELSE hi
    ELSE LET mid == (lo + hi) \div 2
         IN  IF MathCos(mid) > c THEN AcosBisect(c, mid, hi)
             ELSE AcosBisect(c, lo, mid)

MathAcos(c) ==
    IF IsNaN(c) \/ c > Scale \/ c < -Scale THEN NaN
    ELSE IF c = Scale THEN 0
    ELSE IF c = -Scale THEN Pi
    ELSE AcosBisect(c, 0, Pi)


(***************************************************************************)
(* Dates, the script's time zone and Utilities.formatDate                  *)
(***************************************************************************)

\* var oneDay = 1000 * 60 * 60 * 24, in the model's Date unit (minutes).
oneDay == 1440

\* Days of a calendar year (leap years are not modelled).
DaysPerYear == 365

\* A time zone: its standard offset and its daylight-saving offset from UTC in
\* minutes, and the ordinal days [dstFrom, dstTo) on which daylight saving is
\* in effect (dstFrom > dstTo: over the turn of the year, southern
\* hemisphere).  Days are those of 2025.
EuropeTallinn == [name |-> "Europe/Tallinn", std |-> 120, dst |-> 180,
                  dstFrom |-> 89, dstTo |-> 299]

AmericaStJohns == [name |-> "America/St_Johns", std |-> -210, dst |-> -150,
                   dstFrom |-> 68, dstTo |-> 306]

AustraliaSydney == [name |-> "Australia/Sydney", std |-> 600, dst |-> 660,
                    dstFrom |-> 278, dstTo |-> 96]

AsiaKolkata == [name |-> "Asia/Kolkata", std |-> 330, dst |-> 330,
                dstFrom |-> 1, dstTo |-> 1]

EtcUTC == [name |-> "Etc/UTC", std |-> 0, dst |-> 0, dstFrom |-> 1, dstTo |-> 1]

EtcGMTPlus12 == [name |-> "Etc/GMT+12", std |-> -720, dst |-> -720,
                 dstFrom |-> 1, dstTo |-> 1]

\* date.getFullYear(): day 1..365 of the Date axis is year 0.
getFullYear(date) == ((date \div oneDay) - 1) \div DaysPerYear

\* new Date(year, 0, 0): local midnight of day 0 of January, that is of
\* 31 December of the year before.
NewDateYear00(year) == year * DaysPerYear * oneDay

\* The ordinal day (1 for 1 January) on which the local date of `date` falls.
OrdinalDay(date) == (date \div oneDay) - getFullYear(date) * DaysPerYear

\* Whether daylight saving is in effect in `zone` on the local day of `date`.
InDst(zone, date) ==
    LET d == OrdinalDay(date)
    IN  IF zone.dstFrom <= zone.dstTo
        THEN zone.dstFrom <= d /\ d < zone.dstTo
        ELSE d >= zone.dstFrom \/ d < zone.dstTo

\* The zone's offset from UTC in minutes in effect at `date`.
ZoneOffset(zone, date) == IF InDst(zone, date) THEN zone.dst ELSE zone.std

\* dateA - dateB, the elapsed time between two Dates of the script's zone (in
\* minutes): the difference of their wall-clock readings less the
\* difference of the zone offsets in effect at each.
DateMinus(zone, dateA, dateB) ==
    (dateA - ZoneOffset(zone, dateA)) - (dateB - ZoneOffset(zone, dateB))

\* The decimal digit characters.
DigitChars == <<"0", "1", "2", "3", "4", "5", "6", "7", "8", "9">>

TwoDigits(n) == <<DigitChars[(n \div 10) + 1], DigitChars[(n % 10) + 1]>>

\* Utilities.formatDate(date, timezone, "Z"): the offset as the five
\* characters sign, HH, MM ("+0200", "-0330").
FormatDateZ(date, timezone) ==
    LET off == ZoneOffset(timezone, date)
        a   == FAbs(off)
    IN  <<IF off < 0 THEN "-" ELSE "+">> \o TwoDigits(a \div 60) \o TwoDigits(a % 60)

\* Utilities.formatDate(date, TIMEZONE, "yyyy-MM-dd"): the local calendar
\* day of the date, as <<year, ordinal day>>.
FormatDateYMD(date) == <<getFullYear(date), OrdinalDay(date)>>

\* Utilities.formatDate(date, TIMEZONE, "HH:mm"): <<hour, minute>>.
FormatDateHM(date) == <<(date % oneDay) \div 60, date % 60>>

\* str.slice(from) and str.slice(from, to), on a sequence of characters.
Slice(str, from, to) == SubSeq(str, from + 1, to)

DigitValue(ch) == CHOOSE v \in 0..9 : DigitChars[v + 1] = ch

\* parseInt(str): an optional sign and then decimal digits.
RECURSIVE ParseDigits(_, _)
ParseDigits(str, acc) ==
    IF str = << >> THEN acc
    ELSE ParseDigits(Tail(str), acc * 10 + DigitValue(Head(str)))

parseInt(str) ==
    IF Head(str) = "-" THEN -ParseDigits(Tail(str), 0)
    ELSE IF Head(str) = "+" THEN ParseDigits(Tail(str), 0)
    ELSE ParseDigits(str, 0)

(***************************************************************************)
(* getSunTimes                                                             *)
(***************************************************************************)

\* var rad = Math.PI / 180, in units of 1e-6.
rad == 17453

\* deg * rad: degrees in millidegrees to milliradians, rounded to nearest.
TimesRad(deg) == FSign(deg) * ((FAbs(deg) * rad + 500000) \div 1000000)

\* var dayOfYear = Math.floor((date - startOfYear) / oneDay)
DayOfYear(date, zone) ==
    LET startOfYear == NewDateYear00(getFullYear(date))
        diff == DateMinus(zone, date, startOfYear)
    IN  diff \div oneDay

\* var gamma = 2 * Math.PI / 365 * (dayOfYear - 1), in milliradians.
Gamma(dayOfYear) == (2 * Pi * (dayOfYear - 1)) \div 365

\* The equation of time in milliminutes; the coefficients are in units of
\* 1e-6, the scale 229.18 in units of 1e-2.
EqTime(gamma) ==
    LET sum == 75 * Scale + 1868 * MathCos(gamma) - 32077 * MathSin(gamma)
               - 14615 * MathCos(2 * gamma) - 40849 * MathSin(2 * gamma)
    IN  ((sum \div Scale) * 22918) \div 100000

\* The sun's declination in milliradians; the coefficients are in units of
\* 1e-6.
Decl(gamma) ==
    LET sum == 6918 * Scale - 399912 * MathCos(gamma) + 70257 * MathSin(gamma)
               - 6758 * MathCos(2 * gamma) + 907 * MathSin(2 * gamma)
               - 2697 * MathCos(3 * gamma) + 1480 * MathSin(3 * gamma)
    IN  sum \div 1000000

\* parseInt(tzString.slice(0, 3)) * 60 + parseInt(tzString.slice(3))
TzOffsetMinutes(tzString) ==
    parseInt(Slice(tzString, 0, 3)) * 60 + parseInt(Slice(tzString, 3, Len(tzString)))

\* Math.cos(90.833 * rad) / (Math.cos(lat * rad) * Math.cos(decl))
\*   - Math.tan(lat * rad) * Math.tan(decl)
CosH(lat, decl) ==
    FDiv(MathCos(TimesRad(90833)), FMul(MathCos(TimesRad(lat)), MathCos(decl)))
    - FMul(MathTan(TimesRad(lat)), MathTan(decl))

\* LimitCosH with its second test left out: only values above 1 are limited.
LimitCosH_UpperOnly(cosH) == IF cosH > Scale THEN Scale ELSE cosH

\* if (cosH > 1) cosH = 1; if (cosH < -1) cosH = -1;
LimitCosH(cosH) ==
    IF cosH > Scale THEN Scale ELSE IF cosH < -Scale THEN -Scale ELSE cosH

\* var haMinutes = (ha * 180 / Math.PI) * 4, in milliminutes.
HaMinutes(ha) == IF IsNaN(ha) THEN NaN ELSE ((ha * 180 * Scale) \div Pi) * 4

\* var solarNoon = 720 - (4 * lng) - eqTime + tzOffsetMinutes, in
\* milliminutes (lng in millidegrees, eqTime in milliminutes, the offset in
\* minutes).
SolarNoon(lng, eqTime, tzOffsetMinutes) ==
    720 * Scale - (4 * lng) - eqTime + tzOffsetMinutes * Scale

\* var sunrise = solarNoon - haMinutes; var sunset = solarNoon + haMinutes;
\* return {sunrise, solarNoon, sunset}.  The locals dayOfYear, tzString,
\* tzOffsetMinutes, cosH (as limited) and haMinutes are returned with them.
SunTimesResult(solarNoon, haMinutes, dayOfYear, tzString, tzOffsetMinutes, cosH) ==
    [sunrise |-> NumSub(solarNoon, haMinutes),
     solarNoon |-> solarNoon,
     sunset |-> NumAdd(solarNoon, haMinutes),
     dayOfYear |-> dayOfYear,
     tzString |-> tzString,
     tzOffsetMinutes |-> tzOffsetMinutes,
     cosH |-> cosH,
     haMinutes |-> haMinutes]

\* getSunTimes from solarNoon on, given eqTime, tzOffsetMinutes and the
\* limited cosH: var ha = Math.acos(cosH), haMinutes, sunrise, sunset.
SunTimesFromCosH(dayOfYear, tzString, tzOffsetMinutes, eqTime, cosH, lng) ==
    SunTimesResult(SolarNoon(lng, eqTime, tzOffsetMinutes), HaMinutes(MathAcos(cosH)),
                   dayOfYear, tzString, tzOffsetMinutes, cosH)

\* getSunTimes from gamma on, given dayOfYear and tzString: eqTime, decl,
\* tzOffsetMinutes, cosH and its limiting.
SunTimesOfDay(dayOfYear, tzString, lat, lng) ==
    SunTimesFromCosH(dayOfYear, tzString, TzOffsetMinutes(tzString),
                     EqTime(Gamma(dayOfYear)),
                     LimitCosH(CosH(lat, Decl(Gamma(dayOfYear)))), lng)

\* getSunTimes(date, lat, lng, timezone): lat and lng in millidegrees, the
\* result in milliminutes from the start of the day.  The Date's own methods
\* use the script's zone, taken to be `timezone`.
getSunTimes(date, lat, lng, timezone) ==
    SunTimesOfDay(DayOfYear(date, timezone), FormatDateZ(date, timezone), lat, lng)

(***************************************************************************)
(* minutesToDate and getSunTimesAsDate                                     *)
(***************************************************************************)

\* a % b of JavaScript: the remainder has the sign of the dividend.
JsRem(a, b) == FSign(a) * (FAbs(a) % b)

\* date.setHours(hours, mins, 0, 0): local midnight of the date's day plus
\* the hours and minutes, which may be negative or beyond the day.
setHours(date, hours, mins) == (date - (date % oneDay)) + hours * 60 + mins

\* minutesToDate(baseDate, minutes), minutes in milliminutes:
\*   hours = Math.floor(minutes / 60); mins = Math.floor(minutes % 60)
minutesToDate(baseDate, minutes) ==
    IF IsNaN(minutes) THEN NaN
    ELSE LET hours == minutes \div (60 * Scale)
             mins  == JsRem(minutes, 60 * Scale) \div Scale
         IN  setHours(baseDate, hours, mins)

\* The three minutesToDate conversions of getSunTimesAsDate.
SunTimesAsDate(date, times) ==
    [sunrise |-> minutesToDate(date, times.sunrise),
     noon |-> minutesToDate(date, times.solarNoon),
     sunset |-> minutesToDate(date, times.sunset)]

getSunTimesAsDate(date, lat, lng, timezone) ==
    SunTimesAsDate(date, getSunTimes(date, lat, lng, timezone))

(***************************************************************************)
(* calculateVedicTimes                                                     *)
(***************************************************************************)

\* const BRAHMA_MUHURTA_MINUTES_BEFORE_SUNRISE, BRAHMA_MUHURTA_DURATION_MINUTES
\* and SANDHYA_DURATION_MINUTES as the script ships them.
BRAHMA_MUHURTA_MINUTES_BEFORE_SUNRISE == 96

BRAHMA_MUHURTA_DURATION_MINUTES == 48

SANDHYA_DURATION_MINUTES == 24

\* The three constants as one value: the README and the installation guide
\* have the user edit them, so the functions below read them from `cfg`.
DefaultConfig ==
    [BRAHMA_MUHURTA_MINUTES_BEFORE_SUNRISE |-> BRAHMA_MUHURTA_MINUTES_BEFORE_SUNRISE,
     BRAHMA_MUHURTA_DURATION_MINUTES |-> BRAHMA_MUHURTA_DURATION_MINUTES,
     SANDHYA_DURATION_MINUTES |-> SANDHYA_DURATION_MINUTES]

\* setMinutes that wraps the minute field into 0..59 instead of rolling the
\* hour and the day over.
setMinutes_NoRollover(date, v) ==
    IF IsNaN(date) \/ IsNaN(v) THEN NaN ELSE (date - (date % 60)) + (v % 60)

\* date.getMinutes() and date.setMinutes(v): the minute field of the local
\* time, and the Date with that field set to v (any integer; the hour and the
\* day roll over).
getMinutes(date) == IF IsNaN(date) THEN NaN ELSE date % 60

setMinutes(date, v) ==
    IF IsNaN(date) \/ IsNaN(v) THEN NaN ELSE (date - (date % 60)) + v

\* formatTime(date): "N/A" for no date, else HH:mm as <<hour, minute>>.
formatTime(date) == IF IsNaN(date) THEN <<"N/A">> ELSE FormatDateHM(date)

\* One period of the result of calculateVedicTimes; the description is kept
\* as the three times it prints.
Period(start, end, type, anchor) ==
    [start |-> start, end |-> end, type |-> type,
     description |-> <<formatTime(start), formatTime(end), formatTime(anchor)>>]

\* The body of calculateVedicTimes, the three constants given.
VedicPeriods(sunTimes, minutesBeforeSunrise, brahmaDuration, sandhyaDuration) ==
    LET brahmaMuhurtaStart ==
            setMinutes(sunTimes.sunrise,
                NumSub(getMinutes(sunTimes.sunrise), minutesBeforeSunrise))
        brahmaMuhurtaEnd ==
            setMinutes(brahmaMuhurtaStart,
                NumAdd(getMinutes(brahmaMuhurtaStart), brahmaDuration))
        morningSandhyaStart ==
            setMinutes(sunTimes.sunrise,
                NumSub(getMinutes(sunTimes.sunrise), sandhyaDuration))
        morningSandhyaEnd ==
            setMinutes(sunTimes.sunrise,
                NumAdd(getMinutes(sunTimes.sunrise), sandhyaDuration))
        noonSandhyaStart ==
            setMinutes(sunTimes.noon,
                NumSub(getMinutes(sunTimes.noon), sandhyaDuration))
        noonSandhyaEnd ==
            setMinutes(noonSandhyaStart,
                NumAdd(getMinutes(noonSandhyaStart), sandhyaDuration * 2))
        eveningSandhyaStart ==
            setMinutes(sunTimes.sunset,
                NumSub(getMinutes(sunTimes.sunset), sandhyaDuration))
        eveningSandhyaEnd ==
            setMinutes(sunTimes.sunset,
                NumAdd(getMinutes(sunTimes.sunset), sandhyaDuration))
    IN  [brahmaMuhurta |->
            Period(brahmaMuhurtaStart, brahmaMuhurtaEnd, "Brahma-muhurta", sunTimes.sunrise),
         morningSandhya |->
            Period(morningSandhyaStart, morningSandhyaEnd, "Morning Sandhya", sunTimes.sunrise),
         noonSandhya |->
            Period(noonSandhyaStart, noonSandhyaEnd, "Midday Sandhya", sunTimes.noon),
         eveningSandhya |->
            Period(eveningSandhyaStart, eveningSandhyaEnd, "Evening Sandhya", sunTimes.sunset)]

\* calculateVedicTimes with the sandhya half-width left at the shipped 24
\* whatever cfg says.
calculateVedicTimes_FixedSandhya(sunTimes, cfg) ==
    VedicPeriods(sunTimes, cfg.BRAHMA_MUHURTA_MINUTES_BEFORE_SUNRISE,
                 cfg.BRAHMA_MUHURTA_DURATION_MINUTES, SANDHYA_DURATION_MINUTES)

\* calculateVedicTimes(sunTimes), reading the constants from cfg.
calculateVedicTimes(sunTimes, cfg) ==
    VedicPeriods(sunTimes, cfg.BRAHMA_MUHURTA_MINUTES_BEFORE_SUNRISE,
                 cfg.BRAHMA_MUHURTA_DURATION_MINUTES, cfg.SANDHYA_DURATION_MINUTES)

(***************************************************************************)
(* The calendar store: getOrCreateCalendar and createCalendarEvents        *)
(***************************************************************************)

\* const LATITUDE = 59.4369 and LONGITUDE = 24.7536, in millidegrees.
LATITUDE == 59437

LONGITUDE == 24754

TIMEZONE == EuropeTallinn

CALENDAR_NAME == "Vedic Calendar"

\* CalendarApp.createCalendar(CALENDAR_NAME, {color, timezone}): a new, empty
\* calendar.
NewCalendar ==
    [name |-> CALENDAR_NAME, color |-> "ORANGE", timezone |-> TIMEZONE.name,
     events |-> << >>]

\* getOrCreateCalendar without its search: a calendar is created on every
\* call.
getOrCreateCalendar_AlwaysCreate(cals) ==
    [cals |-> Append(cals, NewCalendar), index |-> Len(cals) + 1]

\* getOrCreateCalendar(): over `cals` (CalendarApp.getAllCalendars(), in its
\* order) the first calendar named CALENDAR_NAME, or else a new one.  The
\* result is the calendars after the call and the index of the one returned.
getOrCreateCalendar(cals) ==
    LET found == {i \in DOMAIN cals : cals[i].name = CALENDAR_NAME}
    IN  IF found = {}
        THEN [cals |-> Append(cals, NewCalendar), index |-> Len(cals) + 1]
        ELSE [cals |-> cals,
              index |-> CHOOSE i \in found : \A j \in found : i <= j]

\* calendar.createEvent(title, start, end, {description, location, timezone}):
\* the title `${type} (${dateStr})` is kept as the pair <<type, dateStr>>.
NewEvent(period, dateStr) ==
    [title |-> <<period.type, dateStr>>, start |-> period.start, end |-> period.end,
     description |-> period.description, location |-> "Tallinn, Estonia",
     timezone |-> TIMEZONE.name]

\* createCalendarEvents(vedicTimes, date): the calendars after the four
\* calendar.createEvent calls on the calendar getOrCreateCalendar() returns.
createCalendarEvents(cals, vedicTimes, date) ==
    LET got == getOrCreateCalendar(cals)
        dateStr == FormatDateYMD(date)
        created == <<NewEvent(vedicTimes.brahmaMuhurta, dateStr),
                     NewEvent(vedicTimes.morningSandhya, dateStr),
                     NewEvent(vedicTimes.noonSandhya, dateStr),
                     NewEvent(vedicTimes.eveningSandhya, dateStr)>>
    IN  [got.cals EXCEPT ![got.index].events = @ \o created]

\* tomorrow.setDate(tomorrow.getDate() + 1): the same local time a day on.
Tomorrow(today) == today + oneDay

\* The body of createVedicEvents() run at the time `today`: the calendars
\* after it.
createVedicEventsCalendars(cals, today, cfg) ==
    LET tomorrow == Tomorrow(today)
        sunTimes == getSunTimesAsDate(tomorrow, LATITUDE, LONGITUDE, TIMEZONE)
        vedicTimes == calculateVedicTimes(sunTimes, cfg)
    IN  createCalendarEvents(cals, vedicTimes, tomorrow)

\* The line createVedicEvents() logs.
CreatedLogLine(today) == <<"Vedic events created for", FormatDateYMD(Tomorrow(today))>>


(***************************************************************************)
(* State                                                                   *)
(***************************************************************************)

VARIABLES
    now,          \* the clock: the Date that new Date() returns
    calendars,    \* CalendarApp: the user's calendars, each with its events
    triggers,     \* ScriptApp: the project's triggers
    fired,        \* ids of the triggers that have fired on the current day
    log,          \* Logger: the lines logged
    manualRuns,   \* how often manualRun() was run from the editor
    setupCalls,   \* how often setupTrigger() was run from the editor
    config,       \* the three constants of the Vedic periods
    pc,           \* a function applied on its own: where the call stands
    arg,          \* ... its arguments
    ret           \* ... and what it returned

vars == <<now, calendars, triggers, fired, log, manualRuns, setupCalls,
          config, pc, arg, ret>>

programVars == <<now, calendars, triggers, fired, log, manualRuns, setupCalls>>

callVars == <<pc, arg, ret>>

\* Bounds of the program's runs.
StartDay == 170

MaxTicks == 3

MaxManualRuns == 2

MaxSetupCalls == 2

TickMinutes == 6 * 60

StartNow == StartDay * oneDay + 12 * 60 + 30

\* Triggers a project may hold before setupTrigger() is first run: one of
\* another function, and two of createVedicEvents left by earlier set-ups
\* (one of them at another hour).
InitialTriggerPool ==
    <<[id |-> 1, handler |-> "sendReport", atHour |-> 9, everyDays |-> 1],
      [id |-> 2, handler |-> "createVedicEvents", atHour |-> 18, everyDays |-> 1],
      [id |-> 3, handler |-> "createVedicEvents", atHour |-> 6, everyDays |-> 1]>>

InitialTriggers ==
    {SelectSeq(InitialTriggerPool, LAMBDA t : t.id \in S) :
        S \in SUBSET {InitialTriggerPool[i].id : i \in DOMAIN InitialTriggerPool}}

\* Calendars a user may hold before the first run.
OtherCalendar ==
    [name |-> "Personal", color |-> "BLUE", timezone |-> TIMEZONE.name, events |-> << >>]

InitialCalendars ==
    {<< >>, <<OtherCalendar>>, <<NewCalendar>>, <<OtherCalendar, NewCalendar>>,
     <<NewCalendar, NewCalendar>>}

NoCall == [fn |-> "none"]

Init ==
    /\ now = StartNow
    /\ calendars \in InitialCalendars
    /\ triggers \in InitialTriggers
    /\ fired = {}
    /\ log = << >>
    /\ manualRuns = 0
    /\ setupCalls = 0
    /\ config = DefaultConfig
    /\ pc = "idle"
    /\ arg = NoCall
    /\ ret = NoCall

(***************************************************************************)
(* The program: createVedicEvents, manualRun, setupTrigger                 *)
(***************************************************************************)

\* Time passes.  A new day lets every time-based trigger fire again.
Tick ==
    /\ now + TickMinutes <= StartNow + MaxTicks * TickMinutes
    /\ now' = now + TickMinutes
    /\ fired' = IF now' \div oneDay = now \div oneDay THEN fired ELSE {}
    /\ UNCHANGED <<calendars, triggers, log, manualRuns, setupCalls, config, callVars>>

\* A daily time-based trigger of createVedicEvents fires in its hour, once a
\* day: createVedicEvents() runs.
ScheduledRun ==
    \E i \in DOMAIN triggers :
        /\ triggers[i].handler = "createVedicEvents"
        /\ triggers[i].atHour = (now % oneDay) \div 60
        /\ triggers[i].id \notin fired
        /\ fired' = fired \cup {triggers[i].id}
        /\ calendars' = createVedicEventsCalendars(calendars, now, config)
        /\ log' = Append(log, CreatedLogLine(now))
        /\ UNCHANGED <<now, triggers, manualRuns, setupCalls, config, callVars>>

\* manualRun(), run from the editor: createVedicEvents(), then a log line.
manualRun ==
    /\ manualRuns < MaxManualRuns
    /\ manualRuns' = manualRuns + 1
    /\ calendars' = createVedicEventsCalendars(calendars, now, config)
    /\ log' = log \o <<CreatedLogLine(now),
                       <<"Script executed manually. Check calendar for created events.">>>>
    /\ UNCHANGED <<now, triggers, fired, setupCalls, config, callVars>>

\* ScriptApp.newTrigger("createVedicEvents").timeBased().atHour(18)
\*     .everyDays(1).create()
NewTrigger(id) ==
    [id |-> id, handler |-> "createVedicEvents", atHour |-> 18, everyDays |-> 1]

\* setupTrigger without its deleting loop: the new trigger is only added.
TriggersAfterSetup_NoDelete(trs, id) == Append(trs, NewTrigger(id))

\* The project's triggers after setupTrigger(): every trigger whose handler
\* is createVedicEvents deleted, then the new one created.
TriggersAfterSetup(trs, id) ==
    Append(SelectSeq(trs, LAMBDA t : t.handler # "createVedicEvents"), NewTrigger(id))

\* setupTrigger(), run from the editor.
setupTrigger ==
    /\ setupCalls < MaxSetupCalls
    /\ setupCalls' = setupCalls + 1
    /\ triggers' = TriggersAfterSetup(triggers, Len(InitialTriggerPool) + setupCalls + 1)
    /\ log' = Append(log, <<"Daily trigger set to run at 6:00 PM.">>)
    /\ UNCHANGED <<now, calendars, fired, manualRuns, config, callVars>>

Next == Tick \/ ScheduledRun \/ manualRun \/ setupTrigger

Spec == Init /\ [][Next]_vars


(***************************************************************************)
(* The functions applied on their own, over bounded sets of arguments      *)
(***************************************************************************)

\* The program at rest while a function is applied on its own.
ProgramAtRest ==
    /\ now = StartNow
    /\ calendars = << >>
    /\ triggers = << >>
    /\ fired = {}
    /\ log = << >>
    /\ manualRuns = 0
    /\ setupCalls = 0

\* What a call that returned `value` leaves: the code has no throw statement,
\* so no call ends in an error.
Returned(value) == [threw |-> "none", value |-> value]

\* Dates: ordinal days through the year (1 January, winter, the equinoxes,
\* the solstices, 1 July) at several times of day.
SunDays == {1, 20, 80, 172, 182, 264, 355}

SunClockTimes == {0, 30, 18 * 60, 23 * 60 + 30}

SunDates == {d * oneDay + t : d \in SunDays, t \in SunClockTimes}

\* Latitudes and longitudes in millidegrees: the script's own, the equator,
\* the polar circles' neighbourhood, the poles, and values out of range.
Latitudes == {LATITUDE, 0, 47560, -33870, 67000, -90000, 90000, 91000, -91000}

Longitudes == {LONGITUDE, -52712, 14452, 151210, 180000, -180000, 200000}

Zones == {EuropeTallinn, AmericaStJohns, AustraliaSydney, AsiaKolkata, EtcUTC,
          EtcGMTPlus12}

ValidLocation(lat, lng) ==
    /\ -90 * Scale <= lat /\ lat <= 90 * Scale
    /\ -180 * Scale <= lng /\ lng <= 180 * Scale

InitSun ==
    /\ ProgramAtRest
    /\ config = DefaultConfig
    /\ pc = "start"
    /\ arg \in [date : SunDates, lat : Latitudes, lng : Longitudes, timezone : Zones]
    /\ ret = NoCall

CallGetSunTimes ==
    /\ pc = "start"
    /\ pc' = "getSunTimes"
    /\ ret' = Returned(getSunTimes(arg.date, arg.lat, arg.lng, arg.timezone))
    /\ UNCHANGED <<programVars, config, arg>>

CallGetSunTimesAsDate ==
    /\ pc = "start"
    /\ pc' = "getSunTimesAsDate"
    /\ ret' = Returned(getSunTimesAsDate(arg.date, arg.lat, arg.lng, arg.timezone))
    /\ UNCHANGED <<programVars, config, arg>>

NextSun == CallGetSunTimes \/ CallGetSunTimesAsDate

SpecSun == InitSun /\ [][NextSun]_vars

\* minutesToDate: whole minutes within MaxMinutes of midnight, each with
\* several fractions of a minute (in milliminutes).
MaxMinutes == 1500

MinuteFractions == {0, 1, 500, 999}

MinuteValues ==
    {w * Scale + f : w \in (-MaxMinutes)..MaxMinutes, f \in MinuteFractions}

BaseDates == {oneDay, StartNow}

InitMinutes ==
    /\ ProgramAtRest
    /\ config = DefaultConfig
    /\ pc = "start"
    /\ arg \in [baseDate : BaseDates, minutes : MinuteValues]
    /\ ret = NoCall

CallMinutesToDate ==
    /\ pc = "start"
    /\ pc' = "minutesToDate"
    /\ ret' = Returned(minutesToDate(arg.baseDate, arg.minutes))
    /\ UNCHANGED <<programVars, config, arg>>

NextMinutes == CallMinutesToDate

SpecMinutes == InitMinutes /\ [][NextMinutes]_vars

\* calculateVedicTimes: a sunrise within MaxSunriseMinutes of the midnight of
\* StartDay, with noon and sunset the same gap later each.
MaxSunriseMinutes == 800

SunGaps == {0, 181, 558}

SunTimesInputs ==
    {[sunrise |-> StartDay * oneDay + m,
      noon |-> StartDay * oneDay + m + g,
      sunset |-> StartDay * oneDay + m + 2 * g] :
        m \in (-MaxSunriseMinutes)..MaxSunriseMinutes, g \in SunGaps}

\* The values the user may give the three constants.
ConfigChoices ==
    [BRAHMA_MUHURTA_MINUTES_BEFORE_SUNRISE : {BRAHMA_MUHURTA_MINUTES_BEFORE_SUNRISE, 120},
     BRAHMA_MUHURTA_DURATION_MINUTES : {BRAHMA_MUHURTA_DURATION_MINUTES},
     SANDHYA_DURATION_MINUTES : {SANDHYA_DURATION_MINUTES, 30}]

InitVedic ==
    /\ ProgramAtRest
    /\ config = DefaultConfig
    /\ pc = "start"
    /\ arg \in [sunTimes : SunTimesInputs]
    /\ ret = NoCall

CallCalculateVedicTimes ==
    /\ pc = "start"
    /\ pc' = "calculateVedicTimes"
    /\ ret' = Returned(calculateVedicTimes(arg.sunTimes, config))
    /\ UNCHANGED <<programVars, config, arg>>

\* The user edits one of the constants and runs the script again on the same
\* sun times.
Customize ==
    /\ pc = "calculateVedicTimes"
    /\ \E c \in ConfigChoices :
        /\ Cardinality({k \in DOMAIN c : c[k] # config[k]}) = 1
        /\ config' = c
        /\ ret' = Returned(calculateVedicTimes(arg.sunTimes, c))
    /\ UNCHANGED <<programVars, pc, arg>>

NextVedic == CallCalculateVedicTimes \/ Customize

SpecVedic == InitVedic /\ [][NextVedic]_vars


(***************************************************************************)
(* The claims                                                              *)
(***************************************************************************)

\* C1: re-runs are idempotent on the calendar store: whatever runs of
\* createVedicEvents (scheduled or manual) have happened, no calendar holds
\* two events with the same (window label, date) title.
C1_OneEventPerDateAndLabel ==
    \A c \in DOMAIN calendars :
        \A i, j \in DOMAIN calendars[c].events :
            i # j => calendars[c].events[i].title # calendars[c].events[j].title

Window(period) == <<period.start, period.end>>

Duration(period) == period.end - period.start

\* C3: calculateVedicTimes returns the four windows of the rule table, each
\* with start <= end: Brahma-muhurta [sunrise - before, sunrise - before +
\* duration], and each sandhya [anchor - half, anchor + half], for the
\* constants in force, wherever the sun times lie.
C3_WindowsFollowRuleTable ==
    pc = "calculateVedicTimes" =>
        LET v == ret.value
            t == arg.sunTimes
            before == config.BRAHMA_MUHURTA_MINUTES_BEFORE_SUNRISE
            duration == config.BRAHMA_MUHURTA_DURATION_MINUTES
            half == config.SANDHYA_DURATION_MINUTES
        IN  /\ Window(v.brahmaMuhurta) = <<t.sunrise - before, t.sunrise - before + duration>>
            /\ Window(v.morningSandhya) = <<t.sunrise - half, t.sunrise + half>>
            /\ Window(v.noonSandhya) = <<t.noon - half, t.noon + half>>
            /\ Window(v.eveningSandhya) = <<t.sunset - half, t.sunset + half>>
            /\ Duration(v.brahmaMuhurta) = duration
            /\ \A w \in {v.morningSandhya, v.noonSandhya, v.eveningSandhya} :
                    Duration(w) = 2 * half
            /\ \A w \in {v.brahmaMuhurta, v.morningSandhya, v.noonSandhya,
                         v.eveningSandhya} : w.start <= w.end

\* C3's case: the constants as shipped, and a Brahma-muhurta that starts on
\* the day before the sunrise and ends in another hour than it starts.
C3_Witness ==
    /\ pc = "calculateVedicTimes"
    /\ config = DefaultConfig
    /\ ret.value.brahmaMuhurta.start \div oneDay < arg.sunTimes.sunrise \div oneDay
    /\ ret.value.brahmaMuhurta.start \div 60 # ret.value.brahmaMuhurta.end \div 60

\* C4: with a latitude outside [-90, 90] or a longitude outside [-180, 180]
\* the solar calculation ends in an InvalidLocation error and returns no
\* sun times.
C4_InvalidLocationRaises ==
    (pc \in {"getSunTimes", "getSunTimesAsDate"} /\ ~ValidLocation(arg.lat, arg.lng)) =>
        ret.threw = "InvalidLocation"

\* C5: for every date and every latitude in [-90, 90], the poles included,
\* getSunTimes returns with the cosine of the hour angle in [-1, 1], an hour
\* angle offset between 0 and 720 minutes (not NaN), sunrise = solarNoon -
\* offset and sunset = solarNoon + offset, at most 1440 minutes apart.
C5_HourAngleDefined ==
    (pc = "getSunTimes" /\ -90 * Scale <= arg.lat /\ arg.lat <= 90 * Scale) =>
        LET v == ret.value
        IN  /\ ret.threw = "none"
            /\ -Scale <= v.cosH /\ v.cosH <= Scale
            /\ ~IsNaN(v.haMinutes)
            /\ 0 <= v.haMinutes /\ v.haMinutes <= 720 * Scale
            /\ v.sunrise = v.solarNoon - v.haMinutes
            /\ v.sunset = v.solarNoon + v.haMinutes
            /\ v.sunset - v.sunrise <= 1440 * Scale

\* C5's case: at the north pole the cosine as computed lies below -1 and is
\* limited: the hour angle offset is the full 720 minutes.
C5_Witness ==
    /\ pc = "getSunTimes"
    /\ arg.lat = 90 * Scale
    /\ CosH(arg.lat, Decl(Gamma(ret.value.dayOfYear))) < -Scale
    /\ ret.value.haMinutes = 720 * Scale

\* C6: changing the sandhya half-width from 24 to 30, all else equal, makes
\* the morning, midday and evening windows 60 minutes wide and leaves the
\* start and end of the Brahma-muhurta window as they were.
C6_HalfWidthOverride ==
    [][(/\ pc = "calculateVedicTimes" /\ pc' = "calculateVedicTimes"
        /\ arg' = arg
        /\ config.SANDHYA_DURATION_MINUTES = 24
        /\ config' = [config EXCEPT !.SANDHYA_DURATION_MINUTES = 30])
       => (/\ Duration(ret'.value.morningSandhya) = 60
           /\ Duration(ret'.value.noonSandhya) = 60
           /\ Duration(ret'.value.eveningSandhya) = 60
           /\ Duration(ret.value.morningSandhya) = 48
           /\ Window(ret'.value.brahmaMuhurta) = Window(ret.value.brahmaMuhurta))]_vars

\* C6's case: the half-width has been set to 30 (the other constants as
\* shipped) and the windows were computed again.
C6_Witness ==
    /\ pc = "calculateVedicTimes"
    /\ config = [DefaultConfig EXCEPT !.SANDHYA_DURATION_MINUTES = 30]
    /\ Duration(ret.value.noonSandhya) = 60

\* C7: minutesToDate(baseDate, m) is the Date floor(m) minutes after local
\* midnight of baseDate's day, for every m, negative and beyond 1440 included.
C7_MinutesToDateIsFloor ==
    pc = "minutesToDate" =>
        ret.value = (arg.baseDate - (arg.baseDate % oneDay)) + (arg.minutes \div Scale)

\* C8: the offset in minutes that getSunTimes derives from the zone string
\* is the signed offset sign * (HH * 60 + MM) in effect, and it is the value
\* added in solarNoon (stated for the valid locations).
C8_OffsetIsSignedOffset ==
    (pc = "getSunTimes" /\ ValidLocation(arg.lat, arg.lng)) =>
        /\ ret.value.tzOffsetMinutes = ZoneOffset(arg.timezone, arg.date)
        /\ ret.value.solarNoon =
              SolarNoon(arg.lng, EqTime(Gamma(ret.value.dayOfYear)),
                        ZoneOffset(arg.timezone, arg.date))

\* C9: the dayOfYear of getSunTimes is the ordinal day of the date within its
\* year (1 for 1 January), whatever the time of day and the daylight saving
\* (stated for the valid locations).
C9_DayOfYearIsOrdinal ==
    (pc = "getSunTimes" /\ ValidLocation(arg.lat, arg.lng)) =>
        ret.value.dayOfYear = OrdinalDay(arg.date)

\* The triggers of the project whose handler is, and is not, createVedicEvents.
OwnTriggers(trs) == SelectSeq(trs, LAMBDA t : t.handler = "createVedicEvents")

OtherTriggers(trs) == SelectSeq(trs, LAMBDA t : t.handler # "createVedicEvents")

\* C10: once setupTrigger has run, exactly one trigger of createVedicEvents
\* exists, daily at hour 18, whatever triggers the project held before; and
\* no step deletes or adds a trigger of another handler.
C10_OneDailyTrigger ==
    /\ [](setupCalls > 0 =>
            /\ Len(OwnTriggers(triggers)) = 1
            /\ OwnTriggers(triggers)[1].atHour = 18
            /\ OwnTriggers(triggers)[1].everyDays = 1)
    /\ [][OtherTriggers(triggers') = OtherTriggers(triggers)]_vars

\* C10's case: setupTrigger has run twice in a project that holds a trigger
\* of another function.
C10_Witness ==
    /\ setupCalls = 2
    /\ Len(OtherTriggers(triggers)) = 1
    /\ Len(OwnTriggers(triggers)) = 1


\* The calendars named CALENDAR_NAME among `cals`, by index.
NamedCalendars(cals) == {i \in DOMAIN cals : cals[i].name = CALENDAR_NAME}

\* C11: a calendar is created only when none is named CALENDAR_NAME, and an
\* existing one is otherwise used as it is: in every step the number of
\* calendars of that name stays at most max(1, the number before) and grows
\* only from 0 (so over any sequence of runs it never exceeds max(1, its
\* initial count)), no calendar is removed, renamed or otherwise changed
\* but for its events, and the events a run creates all go into a calendar
\* of that name.
C11_CalendarCreatedOnlyWhenMissing ==
    [][LET before == Cardinality(NamedCalendars(calendars))
           after  == Cardinality(NamedCalendars(calendars'))
       IN  /\ after <= (IF before > 1 THEN before ELSE 1)
           /\ after > before => before = 0
           /\ Len(calendars') >= Len(calendars)
           /\ \A i \in DOMAIN calendars :
                /\ [calendars'[i] EXCEPT !.events = << >>]
                       = [calendars[i] EXCEPT !.events = << >>]
                /\ i \notin NamedCalendars(calendars)
                       => calendars'[i].events = calendars[i].events
           /\ \A i \in DOMAIN calendars' \ DOMAIN calendars :
                calendars'[i].name = CALENDAR_NAME]_vars

\* C11's case: two runs have happened where only another calendar existed:
\* the first created the calendar, the second found it, and it holds the
\* eight events of both while the other calendar holds none.
C11_Witness ==
    /\ manualRuns = 2
    /\ Len(calendars) = 2
    /\ calendars[1] = OtherCalendar
    /\ calendars[2].name = CALENDAR_NAME
    /\ Len(calendars[2].events) = 8

=============================================================================
